---- MODULE Spec2Model ----
(***************************************************************************)
(* Model of shamir.js: base-N parsing, exact rational arithmetic, Lagrange *)
(* interpolation, the lazy k-subset generator, the consistency solver      *)
(* solveShamirLike and the batch driver runWithJson.                       *)
(***************************************************************************)
EXTENDS Integers, Sequences, FiniteSets, TLC

\* ------------------------------------------------------------------ bounds
\* largest number of shares of a generated test case
MaxN == 3
\* largest declared share index (x-coordinate) of a generated test case
MaxX == 4
\* largest share value of a generated test case
MaxY == 2
\* largest number of test cases in a generated batch
MaxBatch == 2
\* largest array length given to the subset generator on its own
MaxCombN == 5
\* largest magnitude of the integers given to the Rational constructor
MaxRat == 3
\* cap on numerator magnitude and denominator of the running Rational
MaxAcc == 12

VARIABLES
    testCases,  \* runWithJson: the parsed batch
    tc,         \* runWithJson: 1-based position of forEach in the batch
    out,        \* runWithJson: what was written to the console so far
    pc,         \* where control is
    n, k,       \* solveShamirLike: declared share count and threshold
    shares,     \* solveShamirLike: the sorted shares array
    best,       \* solveShamirLike: best candidate so far
    cur,        \* solveShamirLike: idxs, the subset the loop body works on
    given,      \* solveShamirLike: f0, agreeMask and count (or the exception)
                \* of every pass through the loop body so far, in order
    result,     \* solveShamirLike: the returned record
    err,        \* the exception in flight ("none" when there is none)
    garr, gk,   \* combinations: the generator's arguments
    idx,        \* combinations: the generator's cursor
    gen,        \* combinations: "created", "suspended" or "closed"
    yielded,    \* combinations: every subset yielded so far, in order
    ra,         \* a Rational object (or the exception its creation threw)
    rb,         \* the Rational built from the same arguments scaled by m
    rcall       \* the call that produced ra: operation and arguments

vars == <<testCases, tc, out, pc, n, k, shares, best, cur, given, result, err,
          garr, gk, idx, gen, yielded, ra, rb, rcall>>

solverVars ==
    <<testCases, tc, out, pc, n, k, shares, best, cur, given, result, err>>
genVars == <<garr, gk, idx, gen, yielded>>
ratVars == <<ra, rb, rcall>>

\* ------------------------------------------------------- BigInt arithmetic
bigIntAbs(a) == IF a < 0 THEN -a ELSE a

\* BigInt "/" truncates toward zero
BigDiv(a, b) ==
    IF (a < 0) = (b < 0) THEN bigIntAbs(a) \div bigIntAbs(b)
    ELSE -(bigIntAbs(a) \div bigIntAbs(b))

\* BigInt "%" takes the sign of the dividend
BigMod(a, b) == a - b * BigDiv(a, b)

RECURSIVE GcdLoop(_, _)
GcdLoop(a, b) == IF b # 0 THEN GcdLoop(b, BigMod(a, b)) ELSE a

bigIntGcd(a, b) == GcdLoop(bigIntAbs(a), bigIntAbs(b))

\* ---------------------------------------------------------------- Rational
\* A value is either a Rational object (err = "none") or the exception that
\* was thrown instead of producing one.
Throw(msg) == [err |-> msg, n |-> 0, d |-> 1]
IsErr(r) == r.err # "none"

\* the constructor's sign step: a buggy variant that leaves d < 0 alone
SignFlipNone(num, den) == <<num, den>>

\* constructor line 31: if (d < 0n) { n = -n; d = -d; }
SignFlip(num, den) == IF den < 0 THEN <<-num, -den>> ELSE <<num, den>>

\* constructor lines 33-34: this.n = n / g; this.d = d / g
Reduced(num, den, g) == [err |-> "none", n |-> BigDiv(num, g), d |-> BigDiv(den, g)]

\* constructor line 32: g = bigIntGcd(n, d), on the sign-adjusted pair
Normalized(s) == Reduced(s[1], s[2], bigIntGcd(s[1], s[2]))

Rational(num, den) ==
    IF den = 0 THEN Throw("Zero denominator")
    ELSE Normalized(SignFlip(num, den))

fromBigInt(x) == Rational(x, 1)

add(a, b) ==
    IF IsErr(a) THEN a ELSE IF IsErr(b) THEN b
    ELSE Rational(a.n * b.d + b.n * a.d, a.d * b.d)

sub(a, b) ==
    IF IsErr(a) THEN a ELSE IF IsErr(b) THEN b
    ELSE Rational(a.n * b.d - b.n * a.d, a.d * b.d)

mul(a, b) ==
    IF IsErr(a) THEN a ELSE IF IsErr(b) THEN b
    ELSE Rational(a.n * b.n, a.d * b.d)

\* a buggy variant of the divisor test: no test at all
DivisorIsZeroNever(b) == FALSE

\* div line 41: if (other.n === 0n) throw
DivisorIsZero(b) == b.n = 0

div(a, b) ==
    IF IsErr(a) THEN a ELSE IF IsErr(b) THEN b
    ELSE IF DivisorIsZero(b) THEN Throw("Division by zero")
    ELSE Rational(a.n * b.d, a.d * b.n)

\* ------------------------------------------- Rational objects on their own
RatArgs == (0 - MaxRat)..MaxRat
Scales == RatArgs \ {0}
InCap(r) == IsErr(r) \/ (bigIntAbs(r.n) <= MaxAcc /\ r.d <= MaxAcc)

RatIdle ==
    /\ ra = Rational(0, 1)
    /\ rb = Rational(0, 1)
    /\ rcall = [op |-> "new", negDen |-> FALSE, negScale |-> FALSE]

\* new Rational(a, b), and new Rational(a*m, b*m) next to it
RNew(a, b, m) ==
    /\ ra' = Rational(a, b)
    /\ rb' = Rational(a * m, b * m)
    /\ rcall' = [op |-> "new", negDen |-> b < 0, negScale |-> m < 0]

\* this.op(other) on the Rational ra, with other = new Rational(c, d)
ROp(name, res, d) ==
    /\ ~IsErr(ra)
    /\ InCap(res)
    /\ ra' = res
    /\ rb' = res
    /\ rcall' = [op |-> name, negDen |-> d < 0, negScale |-> FALSE]

RAdd(c, d) == ROp("add", add(ra, Rational(c, d)), d)
RSub(c, d) == ROp("sub", sub(ra, Rational(c, d)), d)
RMul(c, d) == ROp("mul", mul(ra, Rational(c, d)), d)
RDiv(c, d) == ROp("div", div(ra, Rational(c, d)), d)

\* ------------------------------------------------------------ combinations
\* line 67: Array.from({ length: k }, (_, i) => i)
FirstIdx(kk) == [j \in 1..kk |-> j - 1]

\* line 70: idx.map(i => arr[i])
MapArr(arr, ix) == [j \in 1..Len(ix) |-> arr[ix[j] + 1]]

\* line 72: idx[i] === i + n - k (i is the 0-based position of the source)
AtLastPosition(ix, i, nn, kk) == ix[i + 1] = i + nn - kk

\* line 72: while (i >= 0 && idx[i] === i + n - k) i--;
RECURSIVE Pivot(_, _, _, _)
Pivot(ix, i, nn, kk) ==
    IF i >= 0 /\ AtLastPosition(ix, i, nn, kk) THEN Pivot(ix, i - 1, nn, kk)
    ELSE i

\* a buggy variant of the successor: the positions right of i are not reset
SuccessorNoReset(ix, i) == [ix EXCEPT ![i + 1] = @ + 1]

\* lines 74-75: idx[i]++; for (j = i + 1; j < k; j++) idx[j] = idx[j - 1] + 1;
Successor(ix, i) ==
    [j \in 1..Len(ix) |->
        IF j - 1 < i THEN ix[j] ELSE ix[i + 1] + 1 + (j - 1 - i)]

\* lines 68 and 70: the generator suspends at a yield with cursor ix
Yield(ix) ==
    [gen |-> "suspended", idx |-> ix, done |-> FALSE, value |-> MapArr(garr, ix)]

\* lines 68 and 73: return, or break out of the loop: the generator is done
Finished == [gen |-> "closed", idx |-> idx, done |-> TRUE, value |-> <<>>]

\* lines 73-75 with i the position found by line 72
Advance(i) == IF i < 0 THEN Finished ELSE Yield(Successor(idx, i))

\* One resumption of the generator: run to the next yield, or to the end.
Resume ==
    IF gen = "created" THEN Yield(FirstIdx(gk))
    ELSE IF gk = 0 THEN Finished
    ELSE Advance(Pivot(idx, gk - 1, Len(garr), gk))

\* the generator object of combinations(arr, kk), before its first next()
Created(arr, kk) ==
    /\ garr = arr
    /\ gk = kk
    /\ idx = <<>>
    /\ gen = "created"
    /\ yielded = <<>>

GenIdle == Created(<<>>, 0)

\* the generator after the resumption r
ResumedTo(r) ==
    /\ gen' = r.gen
    /\ idx' = r.idx
    /\ yielded' = IF r.done THEN yielded ELSE Append(yielded, r.value)
    /\ UNCHANGED <<garr, gk>>

\* next() on the generator
CombinationsNext == gen # "closed" /\ ResumedTo(Resume)

\* ------------------------------------------------------- parseBigIntInBase
\* Characters are one-character strings, a string is a sequence of them.
CharCode ==
    (" " :> 32) @@ ("-" :> 45) @@
    ("0" :> 48) @@ ("1" :> 49) @@ ("2" :> 50) @@ ("3" :> 51) @@ ("4" :> 52) @@
    ("5" :> 53) @@ ("6" :> 54) @@ ("7" :> 55) @@ ("8" :> 56) @@ ("9" :> 57) @@
    ("A" :> 65) @@ ("F" :> 70) @@ ("Z" :> 90) @@
    ("a" :> 97) @@ ("f" :> 102) @@ ("z" :> 122)

Alphabet == DOMAIN CharCode

\* String.prototype.trim
RECURSIVE TrimLeft(_)
TrimLeft(str) ==
    IF str # <<>> /\ Head(str) = " " THEN TrimLeft(Tail(str)) ELSE str

RECURSIVE TrimRight(_)
TrimRight(str) ==
    IF str # <<>> /\ str[Len(str)] = " "
    THEN TrimRight(SubSeq(str, 1, Len(str) - 1)) ELSE str

Trim(str) == TrimRight(TrimLeft(str))

\* String.prototype.toLowerCase
ToLowerCase(str) ==
    [j \in 1..Len(str) |->
        IF CharCode[str[j]] >= CharCode["A"] /\ CharCode[str[j]] <= CharCode["Z"]
        THEN CHOOSE c \in Alphabet :
                 CharCode[c] = CharCode[str[j]] + (CharCode["a"] - CharCode["A"])
        ELSE str[j]]

\* lines 11-12: the digit value of one character
DigitOf(ch) ==
    IF CharCode[ch] >= CharCode["0"] /\ CharCode[ch] <= CharCode["9"]
    THEN CharCode[ch] - CharCode["0"]
    ELSE CharCode[ch] - CharCode["a"] + 10

\* a buggy variant of the accumulation: the place value is dropped
AccumulateSum(val, base, digit) == val + digit

\* line 16: val = val * base + digit
Accumulate(val, base, digit) == val * base + digit

\* lines 9-17; the result is [err, val]
RECURSIVE ParseLoop(_, _, _)
RECURSIVE ParseDigit(_, _, _, _)
ParseLoop(str, base, val) ==
    IF str = <<>> THEN [err |-> "none", val |-> val]
    ELSE ParseDigit(Tail(str), base, val, DigitOf(Head(str)))

\* lines 13-16 for one digit, then the rest of the string
ParseDigit(rest, base, val, digit) ==
    IF digit < 0 \/ digit >= base THEN [err |-> "Invalid digit", val |-> 0]
    ELSE ParseLoop(rest, base, Accumulate(val, base, digit))

parseBigIntInBase(str, base) == ParseLoop(ToLowerCase(Trim(str)), base, 0)

\* BigInt.prototype.toString, radix 10
DigitChar(v) == CHOOSE c \in Alphabet : CharCode[c] = CharCode["0"] + v

RECURSIVE Digits(_)
Digits(v) ==
    IF v < 10 THEN <<DigitChar(v)>>
    ELSE Digits(v \div 10) \o <<DigitChar(v % 10)>>

BigIntToString(v) == IF v < 0 THEN <<"-">> \o Digits(-v) ELSE Digits(v)

\* ---------------------------------------------------------- lagrangeEvalAt
\* a buggy variant of the numerator factor: the operands swapped
NumeratorFactorSwapped(x0, xj) == xj - x0

\* line 56: x0 - xj
NumeratorFactor(x0, xj) == x0 - xj

\* lines 53-58: the inner loop over j, giving <<num, den>>
RECURSIVE BasisLoop(_, _, _, _, _, _)
BasisLoop(points, x0, i, j, num, den) ==
    IF j > Len(points) THEN <<num, den>>
    ELSE IF j = i THEN BasisLoop(points, x0, i, j + 1, num, den)
    ELSE BasisLoop(points, x0, i, j + 1,
                   mul(num, Rational(NumeratorFactor(x0, points[j].x), 1)),
                   mul(den, Rational(points[i].x - points[j].x, 1)))

\* lines 59-60: li = num.div(den); fromBigInt(yi).mul(li)
Scaled(yi, nd) == mul(fromBigInt(yi), div(nd[1], nd[2]))

Term(points, x0, i) ==
    Scaled(points[i].y,
           BasisLoop(points, x0, i, 1, Rational(1, 1), Rational(1, 1)))

\* lines 48-61: the outer loop over i; an exception ends it
RECURSIVE SumLoop(_, _, _, _)
RECURSIVE SumNext(_, _, _, _, _)
SumLoop(points, x0, i, sum) ==
    IF i > Len(points) THEN sum
    ELSE SumNext(points, x0, i, sum, Term(points, x0, i))

\* line 60: sum = sum.add(term), unless computing the term threw
SumNext(points, x0, i, sum, t) ==
    IF IsErr(t) THEN t ELSE SumLoop(points, x0, i + 1, add(sum, t))

lagrangeEvalAt(points, x0) == SumLoop(points, x0, 1, Rational(0, 1))

\* --------------------------------------------------------- solveShamirLike
\* lines 85-92: the loop over the share properties; [err, shares]
RECURSIVE ParseShares(_, _)
RECURSIVE PushShare(_, _, _, _)
ParseShares(props, acc) ==
    IF props = <<>> THEN [err |-> "none", shares |-> acc]
    ELSE PushShare(Tail(props), acc, Head(props).idx,
                   parseBigIntInBase(Head(props).value, Head(props).base))

\* lines 87-91 for one property, then the rest of them
PushShare(rest, acc, i, y) ==
    IF y.err # "none" THEN [err |-> y.err, shares |-> <<>>]
    ELSE ParseShares(rest, Append(acc, [idx |-> i, x |-> i, y |-> y.val]))

\* line 93: shares.sort((a, b) => a.idx - b.idx), a stable sort
RECURSIVE InsertByIdx(_, _)
InsertByIdx(sorted, e) ==
    IF sorted = <<>> THEN <<e>>
    ELSE IF sorted[Len(sorted)].idx <= e.idx THEN Append(sorted, e)
    ELSE Append(InsertByIdx(SubSeq(sorted, 1, Len(sorted) - 1), e),
                sorted[Len(sorted)])

RECURSIVE SortByIdx(_, _)
SortByIdx(arr, acc) ==
    IF arr = <<>> THEN acc
    ELSE SortByIdx(Tail(arr), InsertByIdx(acc, Head(arr)))

\* nothing returned (yet)
NoResult ==
    [k |-> 0, degree |-> -1, secretF0 |-> <<>>,
     consistentShareIndices |-> <<>>, inconsistentShareIndices |-> <<>>]

\* line 95
NoBest ==
    [agreeCount |-> -1, defined |-> FALSE, secretF0 |-> 0,
     subset |-> <<>>, agrees |-> <<>>]

\* line 97: shares.map((_, i) => i)
Indices(sh) == [j \in 1..Len(sh) |-> j - 1]

\* line 99: idxs.map(i => ({ x: shares[i].x, y: shares[i].y }))
SubsetPoints(sh, idxs) ==
    [j \in 1..Len(idxs) |-> [x |-> sh[idxs[j] + 1].x, y |-> sh[idxs[j] + 1].y]]

\* a buggy variant of the agreement test: integrality alone
AgreesIntegral(expected, y) == expected.d = 1

\* line 108: expected.d === 1n && expected.n === shares[i].y
Agrees(expected, y) == expected.d = 1 /\ expected.n = y

\* what one subset gave: an exception, a discarded subset, or a candidate
Thrown(msg) ==
    [err |-> msg, integral |-> FALSE, f0 |-> 0, agrees |-> <<>>, count |-> 0]
Discarded ==
    [err |-> "none", integral |-> FALSE, f0 |-> 0, agrees |-> <<>>, count |-> 0]
Scored(f0, mask) ==
    [err |-> "none", integral |-> TRUE, f0 |-> f0.n, agrees |-> mask,
     count |-> Cardinality({i \in DOMAIN mask : mask[i]})]

\* lines 103-112: the agreement mask and the count
Agreement(sh, nn, f0, expected) ==
    IF \E i \in 1..nn : IsErr(expected[i])
    THEN Thrown(expected[CHOOSE i \in 1..nn : IsErr(expected[i])].err)
    ELSE Scored(f0, [i \in 1..nn |-> Agrees(expected[i], sh[i].y)])

\* lines 100-101, then 103-112 on the same subset
Evaluated(sh, nn, subset, f0) ==
    IF IsErr(f0) THEN Thrown(f0.err)
    ELSE IF f0.d # 1 THEN Discarded
    ELSE Agreement(sh, nn, f0,
                   [i \in 1..nn |-> lagrangeEvalAt(subset, sh[i].x)])

\* lines 99-112 for the subset idxs
Candidate(sh, nn, idxs) ==
    Evaluated(sh, nn, SubsetPoints(sh, idxs),
              lagrangeEvalAt(SubsetPoints(sh, idxs), 0))

\* a buggy variant of the replacement test: ties replace too
BetterOrEqual(count, bestCount) == count >= bestCount

\* line 113: count > best.agreeCount
Better(count, bestCount) == count > bestCount

\* a buggy variant of the early exit: the search never stops early
FullAgreementNever(count, nn) == FALSE

\* line 115: count === n
FullAgreement(count, nn) == count = nn

\* lines 84-98 once every share value is parsed
Parsed(input, parsed) ==
    IF parsed.err # "none"
    THEN /\ err' = parsed.err
         /\ pc' = "caught"
         /\ UNCHANGED <<shares, best, given, garr, gk, idx, gen, yielded>>
    ELSE /\ shares' = SortByIdx(parsed.shares, <<>>)
         /\ best' = NoBest
         /\ given' = <<>>
         /\ garr' = Indices(parsed.shares)
         /\ gk' = input.k
         /\ idx' = <<>>
         /\ gen' = "created"
         /\ yielded' = <<>>
         /\ pc' = "loop"
         /\ UNCHANGED err

\* lines 80-98: read n and k, parse and sort the shares, create the generator
Parse ==
    /\ pc = "parse"
    /\ n' = testCases[tc].n
    /\ k' = testCases[tc].k
    /\ Parsed(testCases[tc], ParseShares(testCases[tc].props, <<>>))
    /\ UNCHANGED <<testCases, tc, out, cur, result, ratVars>>

\* lines 113-116: best is replaced, and the search may stop
Replaced(r, c) ==
    /\ best' = [agreeCount |-> c.count, defined |-> TRUE, secretF0 |-> c.f0,
                subset |-> r.value, agrees |-> c.agrees]
    /\ IF FullAgreement(c.count, n)
       THEN pc' = "build" /\ gen' = "closed"
       ELSE pc' = pc /\ gen' = r.gen

\* lines 99-116 on the subset of the resumption r, c being what it gave
Body(r, c) ==
    /\ idx' = r.idx
    /\ yielded' = Append(yielded, r.value)
    /\ cur' = r.value
    /\ given' = Append(given, c)
    /\ IF c.err # "none" THEN
           /\ err' = c.err
           /\ pc' = "caught"
           /\ gen' = "closed"
           /\ UNCHANGED best
       ELSE IF ~c.integral THEN
           /\ gen' = r.gen
           /\ UNCHANGED <<pc, best, err>>
       ELSE IF Better(c.count, best.agreeCount) THEN
           /\ Replaced(r, c)
           /\ UNCHANGED err
       ELSE
           /\ gen' = r.gen
           /\ UNCHANGED <<pc, best, err>>

\* lines 98-116: the generator yields the next subset and the body runs on it
LoopBody ==
    /\ pc = "loop"
    /\ ~Resume.done
    /\ Body(Resume, Candidate(shares, n, Resume.value))
    /\ UNCHANGED <<testCases, tc, out, n, k, shares, result, garr, gk, ratVars>>

\* line 98: the generator is exhausted and the loop ends
LoopEnd ==
    /\ pc = "loop"
    /\ Resume.done
    /\ gen' = "closed"
    /\ pc' = "build"
    /\ UNCHANGED <<testCases, tc, out, n, k, shares, best, cur, given, result,
                   err, garr, gk, idx, yielded, ratVars>>

\* lines 119-123: the declared indices of the shares with agrees[i] = flag
RECURSIVE Partition(_, _, _, _)
Partition(sh, agrees, flag, i) ==
    IF i > Len(agrees) THEN <<>>
    ELSE (IF agrees[i] = flag THEN <<sh[i].idx>> ELSE <<>>)
         \o Partition(sh, agrees, flag, i + 1)

\* lines 119-131: with no candidate, best.agrees[i] (or, for n = 0,
\* best.secretF0.toString()) reads a property of undefined: a TypeError
Return ==
    /\ pc = "build"
    /\ IF ~best.defined
       THEN /\ err' = "TypeError"
            /\ pc' = "caught"
            /\ UNCHANGED result
       ELSE /\ result' = [k |-> k, degree |-> k - 1,
                          secretF0 |-> BigIntToString(best.secretF0),
                          consistentShareIndices |->
                              Partition(shares, best.agrees, TRUE, 1),
                          inconsistentShareIndices |->
                              Partition(shares, best.agrees, FALSE, 1)]
            /\ pc' = "returned"
            /\ UNCHANGED err
    /\ UNCHANGED <<testCases, tc, out, n, k, shares, best, cur, given, genVars,
                   ratVars>>

\* -------------------------------------------------------------- runWithJson
\* lines 141-146: the result is printed and forEach goes on
Report ==
    /\ pc = "returned"
    /\ out' = Append(out, [kind |-> "result", case |-> tc, result |-> result,
                           message |-> "none"])
    /\ IF tc < Len(testCases)
       THEN tc' = tc + 1 /\ pc' = "parse"
       ELSE tc' = tc /\ pc' = "end"
    /\ UNCHANGED <<testCases, n, k, shares, best, cur, given, result, err,
                   genVars, ratVars>>

\* lines 148-150: the catch around the whole forEach prints the message
Catch ==
    /\ pc = "caught"
    /\ out' = Append(out, [kind |-> "error", case |-> 0, result |-> NoResult,
                           message |-> err])
    /\ pc' = "end"
    /\ UNCHANGED <<testCases, tc, n, k, shares, best, cur, given, result, err,
                   genVars, ratVars>>

\* ------------------------------------------------------ specifications (1)
SolverIdle ==
    /\ testCases = <<>>
    /\ tc = 1
    /\ out = <<>>
    /\ pc = "end"
    /\ n = 0
    /\ k = 0
    /\ shares = <<>>
    /\ best = NoBest
    /\ cur = <<>>
    /\ given = <<>>
    /\ result = NoResult
    /\ err = "none"

InitRational == SolverIdle /\ GenIdle /\ RatIdle

NextRational ==
    \/ \E a \in RatArgs, b \in RatArgs, m \in Scales :
           RNew(a, b, m) /\ UNCHANGED <<solverVars, genVars>>
    \/ \E c \in RatArgs, d \in Scales :
           RAdd(c, d) /\ UNCHANGED <<solverVars, genVars>>
    \/ \E c \in RatArgs, d \in Scales :
           RSub(c, d) /\ UNCHANGED <<solverVars, genVars>>
    \/ \E c \in RatArgs, d \in Scales :
           RMul(c, d) /\ UNCHANGED <<solverVars, genVars>>
    \/ \E c \in RatArgs, d \in Scales :
           RDiv(c, d) /\ UNCHANGED <<solverVars, genVars>>

SpecRational == InitRational /\ [][NextRational]_vars

InitComb ==
    /\ SolverIdle
    /\ RatIdle
    /\ \E nn \in 0..MaxCombN : \E kk \in 0..nn :
           Created([j \in 1..nn |-> j - 1], kk)

NextComb == CombinationsNext /\ UNCHANGED <<solverVars, ratVars>>

SpecComb == InitComb /\ [][NextComb]_vars

\* ------------------------------------------------------ specifications (2)
Share(i, b, v) == [idx |-> i, base |-> b, value |-> v]
TestCase(nn, kk, props) == [n |-> nn, k |-> kk, props |-> props]

\* a test case of base-10 shares with declared indices xs and values ys
Decimal(kk, xs, ys) ==
    TestCase(Len(xs), kk,
             [j \in 1..Len(xs) |-> Share(xs[j], 10, BigIntToString(ys[j]))])

\* the generated test cases with distinct declared indices: up to MaxN shares
\* in ascending key order, values up to MaxY, any threshold
Ascending(nn) ==
    {xs \in [1..nn -> 1..MaxX] : \A j \in 1..(nn - 1) : xs[j] < xs[j + 1]}

DistinctCases ==
    UNION {{Decimal(kk, xs, ys) :
               kk \in 1..nn, xs \in Ascending(nn), ys \in [1..nn -> 0..MaxY]} :
           nn \in 1..MaxN}

\* the generated test cases in which two keys (such as "1" and "01") give the
\* same declared index: indices 1, 2, 3 and values 0, 1
Colliding(nn) ==
    {xs \in [1..nn -> {1, 2, 3}] :
        /\ \A j \in 1..(nn - 1) : xs[j] <= xs[j + 1]
        /\ \E j \in 1..(nn - 1) : xs[j] = xs[j + 1]}

CollidingCases ==
    UNION {{Decimal(kk, xs, ys) :
               kk \in 1..nn, xs \in Colliding(nn), ys \in [1..nn -> {0, 1}]} :
           nn \in 1..MaxN}

GeneratedCases == DistinctCases \cup CollidingCases

\* the scenario with a corrupted fourth share
Scenario ==
    TestCase(4, 3, <<Share(1, 10, <<"6">>), Share(2, 10, <<"1", "5">>),
                     Share(3, 10, <<"2", "8">>), Share(4, 10, <<"9", "9", "9">>)>>)

\* keys "03" and "02" (kept in insertion order), other bases, blanks, capitals
HexCase ==
    TestCase(2, 2, <<Share(3, 16, <<" ", "F", "f", " ">>),
                     Share(2, 2, <<"1", "0", "1">>)>>)

\* "12" is no base-2 numeral
BadDigitCase ==
    TestCase(2, 1, <<Share(1, 10, <<"1">>), Share(2, 2, <<"1", "2">>)>>)

\* the line through (1,0) and (3,1) is -1/2 at 0
NoIntegerCase ==
    TestCase(2, 2, <<Share(1, 10, <<"0">>), Share(3, 10, <<"1">>)>>)

\* keys "1" and "01"
CollisionCase ==
    TestCase(2, 2, <<Share(1, 10, <<"7">>), Share(1, 10, <<"7">>)>>)

NamedCases == {Scenario, HexCase, BadDigitCase, NoIntegerCase, CollisionCase}

Batches == UNION {[1..len -> NamedCases] : len \in 1..MaxBatch}

Init ==
    /\ testCases \in {<<c>> : c \in GeneratedCases} \cup Batches
    /\ tc = 1
    /\ out = <<>>
    /\ pc = "parse"
    /\ n = 0
    /\ k = 0
    /\ shares = <<>>
    /\ best = NoBest
    /\ cur = <<>>
    /\ given = <<>>
    /\ result = NoResult
    /\ err = "none"
    /\ GenIdle
    /\ RatIdle

Next ==
    \/ Parse
    \/ LoopBody
    \/ LoopEnd
    \/ Return
    \/ Report
    \/ Catch

Spec == Init /\ [][Next]_vars

\* ================================================================ properties
\* ------------------------------------------------- reference definitions
\* the strictly increasing kk-tuples over 0..nn-1
RECURSIVE SortedSeq(_)
SortedSeq(S) ==
    IF S = {} THEN <<>>
    ELSE <<CHOOSE m \in S : \A e \in S : m <= e>>
         \o SortedSeq(S \ {CHOOSE m \in S : \A e \in S : m <= e})

KTuples(nn, kk) ==
    {SortedSeq(S) : S \in {T \in SUBSET (0..(nn - 1)) : Cardinality(T) = kk}}

LexLess(s, t) ==
    \E i \in 1..Len(s) : s[i] < t[i] /\ \A j \in 1..(i - 1) : s[j] = t[j]

StrictlyIncreasing(s) == \A j \in 1..(Len(s) - 1) : s[j] < s[j + 1]

RECURSIVE Choose(_, _)
Choose(nn, kk) ==
    IF kk = 0 THEN 1
    ELSE IF nn = 0 THEN 0
    ELSE Choose(nn - 1, kk - 1) + Choose(nn - 1, kk)

Range(s) == {s[j] : j \in 1..Len(s)}

\* ------------------------------------------------------------------- C6
\* C6: for 0 <= k <= n the generator yields exactly C(n,k) subsets and then
\* ends; each is a strictly increasing k-tuple of positions in [0,n), every
\* such tuple is yielded exactly once, in strictly increasing lexicographic
\* order; for k = 0 exactly one subset, the empty one, is yielded.
Theorem_C6 ==
    /\ \A i \in 1..Len(yielded) :
           /\ Len(yielded[i]) = gk
           /\ StrictlyIncreasing(yielded[i])
           /\ Range(yielded[i]) \subseteq 0..(Len(garr) - 1)
    /\ \A i \in 1..(Len(yielded) - 1) : LexLess(yielded[i], yielded[i + 1])
    /\ Len(yielded) <= Choose(Len(garr), gk)
    /\ (gen = "suspended" /\ Len(yielded) = Choose(Len(garr), gk)) => Resume.done
    /\ gen = "closed" =>
           /\ Len(yielded) = Choose(Len(garr), gk)
           /\ Range(yielded) = KTuples(Len(garr), gk)
           /\ gk = 0 => yielded = << <<>> >>

\* the generator has run to its end on a 5-element list with k = 3
Witness_C6 ==
    gen = "closed" /\ Len(garr) = 5 /\ gk = 3 /\ Len(yielded) = 10

\* ------------------------------------------------------------------- C8
Coprime(a, b) == \A g \in 2..b : ~(a % g = 0 /\ b % g = 0)

\* C8: every Rational produced by a construction or by add, sub, mul, div is
\* in canonical form (denominator > 0, gcd(|numerator|, denominator) = 1), and
\* constructing from (a*m, b*m), m # 0, gives the same object as from (a, b).
Theorem_C8 ==
    /\ ~IsErr(ra) => ra.d > 0 /\ Coprime(ra.n, ra.d)
    /\ ~IsErr(rb) => rb.d > 0 /\ Coprime(rb.n, rb.d)
    /\ rcall.op = "new" => rb = ra

\* a construction from a negative denominator and a negative scale that had
\* to be reduced to a negative proper fraction
Witness_C8 ==
    /\ rcall.op = "new" /\ rcall.negDen /\ rcall.negScale
    /\ ~IsErr(ra) /\ ra.n < 0 /\ ra.d > 1

\* ------------------------------------------- the solver: shared vocabulary
\* solveShamirLike has parsed its shares and is searching or has ended
SolverCtx ==
    pc \in {"loop", "build", "returned"} \/ (pc = "caught" /\ err # "Invalid digit")

\* solveShamirLike has ended after parsing its shares
Ended == pc = "returned" \/ (pc = "caught" /\ err # "Invalid digit")

Distinct(sh) ==
    \A i \in 1..Len(sh) : \A j \in 1..Len(sh) : i # j => sh[i].x # sh[j].x

Tuples == KTuples(n, k)
Pts(t) == SubsetPoints(shares, t)
Cand(t) == Candidate(shares, n, t)

\* The interpolating polynomial of points with distinct x, in integers: its
\* value at x0 is RefP(points, x0) / RefD(points).
RECURSIVE SeqProd(_)
SeqProd(s) == IF s = <<>> THEN 1 ELSE Head(s) * SeqProd(Tail(s))

RECURSIVE SeqSum(_)
SeqSum(s) == IF s = <<>> THEN 0 ELSE Head(s) + SeqSum(Tail(s))

RefDen(points, i) ==
    SeqProd([j \in 1..Len(points) |->
                IF j = i THEN 1 ELSE points[i].x - points[j].x])

RefNum(points, x0, i) ==
    points[i].y * SeqProd([j \in 1..Len(points) |->
                              IF j = i THEN 1 ELSE x0 - points[j].x])

RefD(points) == SeqProd([i \in 1..Len(points) |-> RefDen(points, i)])

RefP(points, x0) ==
    SeqSum([i \in 1..Len(points) |->
               RefNum(points, x0, i)
               * SeqProd([l \in 1..Len(points) |->
                             IF l = i THEN 1 ELSE RefDen(points, l)])])

RefIsValue(points, x0, v) == RefP(points, x0) = v * RefD(points)

RefIntegral(points, x0) ==
    RefP(points, x0) % (IF RefD(points) < 0 THEN -RefD(points) ELSE RefD(points)) = 0

RefValue(points, x0) ==
    IF RefD(points) < 0 THEN (-RefP(points, x0)) \div (-RefD(points))
    ELSE RefP(points, x0) \div RefD(points)

\* the shares that lie on the polynomial through the subset t
RefAgreeing(t) ==
    {i \in 1..n : RefIsValue(Pts(t), shares[i].x, shares[i].y)}

\* the declared indices of the shares outside the subset t, in array order
RECURSIVE Outside(_, _)
Outside(t, i) ==
    IF i > Len(shares) THEN <<>>
    ELSE (IF (i - 1) \in Range(t) THEN <<>> ELSE <<shares[i].idx>>)
         \o Outside(t, i + 1)

\* ------------------------------------------------------------------- C1
\* C1: for n shares with distinct x and 1 <= k <= n in which every k-subset
\* interpolates to a non-integer at 0, solveShamirLike ends with the
\* NoConsistentReconstruction error and returns nothing.
Claim_C1 ==
    (Ended /\ Distinct(shares) /\ \A t \in Tuples : ~RefIntegral(Pts(t), 0))
        => (pc = "caught" /\ err = "NoConsistentReconstruction")

\* ------------------------------------------------------------------- C2
\* inputs that solveShamirLike solves when they are the only test case
ValidCases == {Scenario, HexCase}

ValidCasesAreSolved ==
    (pc = "end" /\ Len(testCases) = 1 /\ testCases[1] \in ValidCases)
        => (Len(out) = 1 /\ out[1].kind = "result")

\* C2: an error raised while solving one test case of a batch does not block
\* the others: every test case whose own input is valid is solved and its
\* result reported, the ones after the failing case included.
Claim_C2 ==
    pc = "end" =>
        \A j \in 1..Len(testCases) :
            testCases[j] \in ValidCases =>
                \E e \in 1..Len(out) : out[e].kind = "result" /\ out[e].case = j

\* ------------------------------------------------------------------- C3
\* the subset t is honest and every other share is corrupted
Honest(t) ==
    /\ RefIntegral(Pts(t), 0)
    /\ RefAgreeing(t) = {p + 1 : p \in Range(t)}

ReportsHonest(t) ==
    /\ pc = "returned"
    /\ result.secretF0 = BigIntToString(RefValue(Pts(t), 0))
    /\ result.inconsistentShareIndices = Outside(t, 1)

\* C3 as claimed: with n > k shares at distinct x, exactly k honest and n-k
\* corrupted, the true secret is returned and the inconsistent list is exactly
\* the corrupted indices, whichever shares are corrupted and however.
Claim_C3 ==
    (Ended /\ n > k /\ Distinct(shares))
        => \A t \in Tuples : Honest(t) => ReportsHonest(t)

\* no k-subset before t in enumeration order interpolates to an integer at 0
EarliestIntegral(t) ==
    \A u \in Tuples : LexLess(u, t) => ~RefIntegral(Pts(u), 0)

\* no k-subset with an integer value at 0 agrees with more than k shares
NoLargerAgreement ==
    \A u \in Tuples : RefIntegral(Pts(u), 0) => Cardinality(RefAgreeing(u)) <= k

\* C3 as amended: the same, provided every k-subset that precedes the honest
\* one in enumeration order interpolates to a non-integer at 0 and no k-subset
\* with an integer value at 0 agrees with more than k shares.
Theorem_C3 ==
    (Ended /\ n > k /\ Distinct(shares))
        => \A t \in Tuples :
               (Honest(t) /\ EarliestIntegral(t) /\ NoLargerAgreement)
                   => ReportsHonest(t)

\* the honest subset was reported although it is not the first one enumerated
Witness_C3 ==
    /\ pc = "returned" /\ n > k /\ Distinct(shares)
    /\ \E t \in Tuples :
           /\ Honest(t) /\ EarliestIntegral(t) /\ NoLargerAgreement
           /\ \E u \in Tuples : LexLess(u, t)
           /\ ReportsHonest(t)

\* ------------------------------------------------------------------- C4
\* the candidate record the solver keeps for the subset t that gave c
Kept(t, c) ==
    [agreeCount |-> c.count, defined |-> TRUE, secretF0 |-> c.f0,
     subset |-> t, agrees |-> c.agrees]

\* the subset produced as number i gave c, a full agreement: it is the last
\* one produced, the search is over, and best and the result are its own
StoppedAt(i, c) ==
    (c.integral /\ c.count = n) =>
        /\ i = Len(yielded)
        /\ gen = "closed"
        /\ pc \in {"build", "returned"}
        /\ best = Kept(yielded[i], c)
        /\ pc = "returned" =>
               /\ result.secretF0 = BigIntToString(c.f0)
               /\ result.consistentShareIndices = [j \in 1..n |-> shares[j].idx]
               /\ result.inconsistentShareIndices = <<>>

StoppedAtEach == \A i \in 1..Len(yielded) : StoppedAt(i, given[i])

\* C4: once an enumerated subset reaches agreement count n, no later subset
\* is produced or evaluated and the search is over; best, and the secret that
\* is returned, are those of that subset; no subset that reaches count n is
\* passed over.
Theorem_C4 == SolverCtx => (Len(given) = Len(yielded) /\ StoppedAtEach)

\* a result was returned after an early exit that left subsets unproduced
Witness_C4 ==
    /\ pc = "returned"
    /\ n > k
    /\ Len(yielded) < Choose(n, k)
    /\ given[Len(given)].count = n

\* ------------------------------------------------------------------- C5
\* what every k-subset gives
GivenAll == [t \in Tuples |-> Cand(t)]

ScoredIn(all) == {t \in DOMAIN all : all[t].integral /\ all[t].err = "none"}

MaxCountIn(all, S) ==
    CHOOSE m \in {all[t].count : t \in S} : \A t \in S : all[t].count <= m

\* the earliest subset, in lexicographic order, among those of S with count m
EarliestIn(all, S, m) ==
    CHOOSE t \in S :
        /\ all[t].count = m
        /\ \A u \in S : all[u].count = m => (u = t \/ LexLess(t, u))

BestOf(all, S) ==
    IF S = {} THEN NoBest
    ELSE Kept(EarliestIn(all, S, MaxCountIn(all, S)),
              all[EarliestIn(all, S, MaxCountIn(all, S))])

BestAmong(all) == BestOf(all, ScoredIn(all))

\* when the search has ended, best is the candidate of the earliest subset
\* among the scored ones with the largest agreement count (none: no candidate)
BestIsEarliestMax == pc = "build" => best = BestAmong(GivenAll)

\* best starts at count -1; a step of the search leaves it alone or replaces
\* it, whole, by the candidate of the subset at hand, of strictly greater count
BestStep ==
    /\ (pc = "parse" /\ pc' = "loop") => best' = NoBest
    /\ pc = "loop" =>
           \/ best' = best
           \/ /\ best'.agreeCount > best.agreeCount
              /\ best' = Kept(cur', given'[Len(given')])

\* C5: at the end of the search best is the candidate of the earliest
\* k-subset, in lexicographic order, among those with an integer f0 and the
\* maximum agreement count; during the search best.agreeCount starts at -1 and
\* never decreases, and best is replaced only by a candidate of strictly
\* greater count, secret, subset and mask coming from the same candidate.
Theorem_C5 == []BestIsEarliestMax /\ [][BestStep]_vars

TiedAtMax(all, S) ==
    \E t \in S : \E u \in S :
        /\ LexLess(t, u)
        /\ all[t].count = MaxCountIn(all, S)
        /\ all[u].count = MaxCountIn(all, S)
        /\ all[t].f0 # all[u].f0
        /\ best.subset = t

\* the search ran to its end with two scored subsets tied at the largest
\* count and giving different secrets
Witness_C5 ==
    /\ pc = "build"
    /\ Len(yielded) = Choose(n, k)
    /\ TiedAtMax(GivenAll, ScoredIn(GivenAll))

\* ------------------------------------------------------------------- C7
\* C7: for n=4, k=3 and base-10 shares 1:"6", 2:"15", 3:"28", 4:"999",
\* solveShamirLike returns secret "1", degree 2, consistent indices [1,2,3]
\* and inconsistent indices [4].
Theorem_C7 ==
    (testCases[tc] = Scenario /\ pc \in {"returned", "caught"}) =>
        /\ pc = "returned"
        /\ result = [k |-> 3, degree |-> 2, secretF0 |-> <<"1">>,
                     consistentShareIndices |-> <<1, 2, 3>>,
                     inconsistentShareIndices |-> <<4>>]

\* the scenario was solved
Witness_C7 == testCases[tc] = Scenario /\ pc = "returned" /\ Len(yielded) = 4

\* ------------------------------------------------------------------- C9
HasCollision(points) ==
    \E i \in 1..Len(points) : \E j \in 1..Len(points) :
        i # j /\ points[i].x = points[j].x

\* lagrangeEvalAt on a point set with two equal x throws DivisionByZero, for
\* every k-subset of the shares and every target x0
CollisionThrows ==
    SolverCtx =>
        \A t \in Tuples : HasCollision(Pts(t)) =>
            \A x0 \in 0..MaxX : lagrangeEvalAt(Pts(t), x0) = Throw("Division by zero")

\* C9 as claimed: the above, and whenever the solver's shares contain a
\* collision the solver surfaces DivisionByZero instead of returning a result.
Claim_C9 ==
    /\ CollisionThrows
    /\ (Ended /\ ~Distinct(shares)) => (pc = "caught" /\ err = "Division by zero")

\* C9 as amended: the above, and the solver surfaces DivisionByZero exactly
\* when its search reaches a k-subset that contains two shares with the same
\* x: that subset is the last one produced, and the search that ends without
\* reaching one (no such k-subset, or an earlier full agreement) raises no
\* DivisionByZero.
Theorem_C9 ==
    /\ CollisionThrows
    /\ SolverCtx =>
           /\ \A i \in 1..Len(yielded) :
                  HasCollision(Pts(yielded[i])) =>
                      (i = Len(yielded) /\ pc = "caught" /\ err = "Division by zero")
           /\ (pc = "caught" /\ err = "Division by zero") =>
                  (yielded # <<>> /\ HasCollision(Pts(yielded[Len(yielded)])))

\* DivisionByZero surfaced at a colliding subset reached after others
Witness_C9 ==
    /\ pc = "caught" /\ err = "Division by zero"
    /\ Len(yielded) > 1
    /\ HasCollision(Pts(yielded[Len(yielded)]))

\* a result was returned although two shares collide
Witness_C9_Returned == pc = "returned" /\ ~Distinct(shares) /\ k > 1

\* ------------------------------------------------------------------ C10
\* the scored candidate c of the subset t marks the shares of t as agreeing
\* and counts between k and n agreements
BasisAgrees(t, c) ==
    c.integral =>
        /\ c.err = "none"
        /\ \A p \in Range(t) : c.agrees[p + 1]
        /\ c.count >= k
        /\ c.count <= n

BasisAgreesEach == \A i \in 1..Len(yielded) : BasisAgrees(yielded[i], given[i])

\* the two lists split the declared indices
Partitioned(yes, no) ==
    /\ Len(yes) >= k
    /\ StrictlyIncreasing(yes)
    /\ StrictlyIncreasing(no)
    /\ Range(yes) \cap Range(no) = {}
    /\ Range(yes) \cup Range(no) = {shares[j].idx : j \in 1..n}
    /\ Len(yes) + Len(no) = n

\* C10: for shares with distinct x, every candidate the solver scores marks
\* its own k basis shares as agreeing, so its count is in k..n; a returned
\* result has at least k consistent indices, and the consistent and
\* inconsistent lists are disjoint, ascending and together hold every declared
\* index exactly once.
Theorem_C10 ==
    (SolverCtx /\ Distinct(shares)) =>
        /\ BasisAgreesEach
        /\ best.defined => \A p \in Range(best.subset) : best.agrees[p + 1]
        /\ pc = "returned" =>
               Partitioned(result.consistentShareIndices,
                           result.inconsistentShareIndices)

\* a result with both lists non-empty, from a candidate that was not the first
Witness_C10 ==
    /\ pc = "returned" /\ Distinct(shares)
    /\ k > 1
    /\ best.subset # yielded[1]
    /\ result.inconsistentShareIndices # <<>>

====
